---------------------------- MODULE Spec2Model ----------------------------
(***************************************************************************)
(* strip-diacritics: the offline generator (generator/src/main.rs) that    *)
(* turns Unicode decomposition tables into the static DIACRITICS_MAPPING   *)
(* table, the perfect-hash CharMap lookup (src/phf.rs) and the run-time    *)
(* stripping of characters and strings (src/lib.rs).                       *)
(*                                                                         *)
(* Codepoints are the integers Unicode gives them; a str is the sequence   *)
(* of its UTF-8 bytes; HashMap<K, V> is a function with a finite domain;   *)
(* Option<T> is a set with at most one element.                            *)
(***************************************************************************)
EXTENDS Integers, Sequences, FiniteSets, TLC

\* ------------------------------------------------------------------------
\* Option<T>
None == {}

Some(v) == {v}

unwrap(o) == CHOOSE v \in o : TRUE

\* ------------------------------------------------------------------------
\* Program constants

\* generator/src/main.rs:290  `if ch <= 0x7f`
ASCII_MAX == 127

\* src/is_diacritic.rs:3  '\u{0300}'..='\u{036f}'
DIACRITIC_FIRST == 768

DIACRITIC_LAST == 879

\* generator/src/main.rs:19-23
S_BASE == 44032

L_COUNT == 19

V_COUNT == 21

T_COUNT == 28

S_COUNT == L_COUNT * V_COUNT * T_COUNT

\* ------------------------------------------------------------------------
\* Sequence helpers

RECURSIVE Concat(_)
Concat(ss) ==
    IF ss = <<>> THEN <<>> ELSE Head(ss) \o Concat(Tail(ss))

Max(S) == CHOOSE m \in S : \A x \in S : x <= m

Min(S) == CHOOSE m \in S : \A x \in S : m <= x

Range(f) == {f[x] : x \in DOMAIN f}

\* ------------------------------------------------------------------------
\* is_diacritic.rs

is_diacritic_open_end(ch) == DIACRITIC_FIRST <= ch /\ ch < DIACRITIC_LAST

is_diacritic(ch) == DIACRITIC_FIRST <= ch /\ ch <= DIACRITIC_LAST

\* ------------------------------------------------------------------------
\* UTF-8: char::len_utf8, char::encode_utf8 and the decoding done by
\* str::char_indices, as the standard library defines them.

len_utf8(c) ==
    IF c < 128 THEN 1
    ELSE IF c < 2048 THEN 2
    ELSE IF c < 65536 THEN 3
    ELSE 4

encode_utf8(c) ==
    IF c < 128 THEN <<c>>
    ELSE IF c < 2048 THEN <<192 + (c \div 64), 128 + (c % 64)>>
    ELSE IF c < 65536 THEN
        <<224 + (c \div 4096), 128 + ((c \div 64) % 64), 128 + (c % 64)>>
    ELSE
        <<240 + (c \div 262144), 128 + ((c \div 4096) % 64),
          128 + ((c \div 64) % 64), 128 + (c % 64)>>

\* width of the character whose leading byte is b
utf8_char_width(b) ==
    IF b < 128 THEN 1
    ELSE IF b < 224 THEN 2
    ELSE IF b < 240 THEN 3
    ELSE 4

\* the character starting at byte position i (1-based) of the valid str s
decode_at(s, i) ==
    LET w == utf8_char_width(s[i])
    IN  IF w = 1 THEN s[i]
        ELSE IF w = 2 THEN (s[i] - 192) * 64 + (s[i + 1] - 128)
        ELSE IF w = 3 THEN
            (s[i] - 224) * 4096 + (s[i + 1] - 128) * 64 + (s[i + 2] - 128)
        ELSE (s[i] - 240) * 262144 + (s[i + 1] - 128) * 4096
                 + (s[i + 2] - 128) * 64 + (s[i + 3] - 128)

\* s.char_indices(): the sequence of <<byte offset (0-based), char>>
RECURSIVE char_indices_from(_, _)
char_indices_from(s, i) ==
    IF i >= Len(s) THEN <<>>
    ELSE LET c == decode_at(s, i + 1)
         IN  <<<<i, c>>>> \o char_indices_from(s, i + utf8_char_width(s[i + 1]))

char_indices(s) == char_indices_from(s, 0)

\* &s[a..b] with 0-based byte offsets, end exclusive
slice(s, a, b) == SubSeq(s, a + 1, b)

\* ------------------------------------------------------------------------
\* generator/src/main.rs: full decomposition

\* HashMap::get
get(map, k) == IF k \in DOMAIN map THEN Some(map[k]) ELSE None

RECURSIVE __decompose(_, _, _, _, _)
RECURSIVE __decompose_each(_, _, _, _, _)

\* fn __decompose(ch, canon_decomp, compat_decomp, compatible, res): the
\* value of res when the call returns
__decompose(ch, canon_decomp, compat_decomp, compatible, res) ==
    IF ch <= ASCII_MAX THEN Append(res, ch)
    ELSE IF get(canon_decomp, ch) # None THEN
        __decompose_each(canon_decomp[ch], canon_decomp, compat_decomp,
                         compatible, res)
    ELSE IF compatible /\ get(compat_decomp, ch) # None THEN
        __decompose_each(compat_decomp[ch], canon_decomp, compat_decomp,
                         compatible, res)
    ELSE Append(res, ch)

\* the `for &d in decomp { __decompose(d, ...) }` loops of __decompose
__decompose_each(decomp, canon_decomp, compat_decomp, compatible, res) ==
    IF decomp = <<>> THEN res
    ELSE __decompose_each(Tail(decomp), canon_decomp, compat_decomp, compatible,
             __decompose(Head(decomp), canon_decomp, compat_decomp,
                         compatible, res))

_decompose(ch, canon_decomp, compat_decomp, compatible) ==
    LET res == __decompose(ch, canon_decomp, compat_decomp, compatible, <<>>)
    IN  IF Len(res) = 1 /\ res[1] = ch THEN None ELSE Some(res)

\* the Hangul syllables the main loop filters out
is_hangul(ch) == S_BASE <= ch /\ ch < S_BASE + S_COUNT

\* `canon_decomp.keys().max().and_then(|m1| compat_decomp.keys().max()
\*      .map(|m2| m1.max(m2)))`
end_codepoint(canon_decomp, compat_decomp) ==
    IF DOMAIN canon_decomp = {} THEN None
    ELSE IF DOMAIN compat_decomp = {} THEN None
    ELSE Some(Max({Max(DOMAIN canon_decomp), Max(DOMAIN compat_decomp)}))

\* the map one mode of the main loop fills: ch -> d for every ch of
\* 0..=end_codepoint outside the Hangul range with _decompose(ch) = Some(d)
decompose_loop(end, canon_decomp, compat_decomp, compatible) ==
    LET keys == {ch \in 0..end :
                   /\ ~is_hangul(ch)
                   /\ _decompose(ch, canon_decomp, compat_decomp, compatible) # None}
    IN  [ch \in keys |->
            unwrap(_decompose(ch, canon_decomp, compat_decomp, compatible))]

\* the pruning loop: compat entries equal to the canon entry are removed
prune(canon, compat) ==
    [k \in {k \in DOMAIN compat : ~(k \in DOMAIN canon /\ canon[k] = compat[k])}
        |-> compat[k]]

\* lines 269-340 of compute_fully_decomposed: <<canon, compat>> before the
\* pruning loop
expand_all(canon_decomp, compat_decomp) ==
    LET e == end_codepoint(canon_decomp, compat_decomp)
    IN  IF e = None THEN <<<<>>, <<>>>>
        ELSE <<decompose_loop(unwrap(e), canon_decomp, compat_decomp, FALSE),
               decompose_loop(unwrap(e), canon_decomp, compat_decomp, TRUE)>>

\* fn compute_fully_decomposed: <<canon, compat>>
compute_fully_decomposed(canon_decomp, compat_decomp) ==
    LET e == expand_all(canon_decomp, compat_decomp)
    IN  <<e[1], prune(e[1], e[2])>>

\* ------------------------------------------------------------------------
\* generator/src/main.rs: reordering, filtering, encoding

\* <[(u8, u32)]>::sort_by_key(|x| x.0): a stable sort by the first component
RECURSIVE insert_by_key(_, _)
insert_by_key(x, sorted) ==
    IF sorted = <<>> THEN <<x>>
    ELSE IF x[1] < Head(sorted)[1] THEN <<x>> \o sorted
    ELSE <<Head(sorted)>> \o insert_by_key(x, Tail(sorted))

RECURSIVE sort_by_key(_)
sort_by_key(buf) ==
    IF buf = <<>> THEN <<>>
    ELSE insert_by_key(buf[Len(buf)], sort_by_key(SubSeq(buf, 1, Len(buf) - 1)))

\* combining_classes.get(&c).copied().unwrap_or_default()
class_of(c, combining_classes) ==
    IF c \in DOMAIN combining_classes THEN combining_classes[c] ELSE 0

\* the `for (class, ch) in ...` loop of sort_codepoints: the final buf
RECURSIVE sort_codepoints_loop(_, _, _)
sort_codepoints_loop(chars, combining_classes, buf) ==
    IF chars = <<>> THEN buf
    ELSE LET ch == Head(chars)
             class == class_of(ch, combining_classes)
             sorted == IF class = 0 THEN sort_by_key(buf) ELSE buf
         IN  sort_codepoints_loop(Tail(chars), combining_classes,
                                  Append(sorted, <<class, ch>>))

sort_codepoints(chars, combining_classes) ==
    LET buf == sort_codepoints_loop(chars, combining_classes, <<>>)
    IN  [i \in 1..Len(buf) |-> buf[i][2]]

\* the `for ch in iter` loop of filter_diacritics: <<ok, buf>>
RECURSIVE filter_diacritics_loop(_, _, _)
filter_diacritics_loop(iter, ok, out) ==
    IF iter = <<>> THEN <<ok, out>>
    ELSE IF is_diacritic(Head(iter))
    THEN filter_diacritics_loop(Tail(iter), TRUE, out)
    ELSE filter_diacritics_loop(Tail(iter), ok, Append(out, Head(iter)))

\* fn filter_diacritics -> Option<Vec<char>>
filter_diacritics(iter) ==
    LET r == filter_diacritics_loop(iter, FALSE, <<>>)
    IN  IF r[1] THEN Some(r[2]) ELSE None

\* fn codepoints_to_utf8 -> String
codepoints_to_utf8(chars) ==
    Concat([i \in 1..Len(chars) |-> encode_utf8(chars[i])])

\* add_mapping with an insert that keeps the value a key already has
add_mapping_keep_first(src, combining_classes, dst) ==
    LET chars(k) == filter_diacritics(sort_codepoints(src[k], combining_classes))
        ins == {k \in DOMAIN src : ~is_diacritic(k) /\ chars(k) # None}
    IN  [k \in (DOMAIN dst) \cup ins |->
            IF k \in DOMAIN dst THEN dst[k]
            ELSE codepoints_to_utf8(unwrap(chars(k)))]

\* fn add_mapping: the value of dst when the call returns
add_mapping(src, combining_classes, dst) ==
    LET chars(k) == filter_diacritics(sort_codepoints(src[k], combining_classes))
        ins == {k \in DOMAIN src : ~is_diacritic(k) /\ chars(k) # None}
    IN  [k \in (DOMAIN dst) \cup ins |->
            IF k \in ins THEN codepoints_to_utf8(unwrap(chars(k))) ELSE dst[k]]

\* the `mapping` block of main (lines 420-427)
build_mapping(combining_classes, compat_decomp, canon_decomp) ==
    LET full == compute_fully_decomposed(canon_decomp, compat_decomp)
        m1 == add_mapping(full[1], combining_classes, <<>>)
    IN  add_mapping(full[2], combining_classes, m1)

\* ------------------------------------------------------------------------
\* The perfect hash.  phf_shared::hash (a keyed SipHash split into the words
\* g, f1, f2), phf_shared::get_index and phf_generator::generate_hash come
\* from external crates; what src/phf.rs and generator/src/main.rs rely on
\* is that hash is one deterministic function of (char, key) at build time
\* and at lookup time.  The words are kept small, so the u32 wrapping
\* arithmetic of displace never wraps here.

\* moduli of the three hash words
HASH_G == 7

HASH_F1 == 5

HASH_F2 == 11

\* phf_generator::DEFAULT_LAMBDA: keys per bucket
DEFAULT_LAMBDA == 5

\* seeds generate_hash tries before the model gives up on a key set
MaxHashKey == 4

\* phf_shared::hash(&key, &self.key)
hash(c, key) ==
    [g  |-> (c * key + key) % HASH_G,
     f1 |-> (c + 3 * key) % HASH_F1,
     f2 |-> ((c \div 2) * (key + 1) + c) % HASH_F2]

\* phf_shared::displace
displace(f1, f2, d1, d2) == d2 + f1 * d1 + f2

\* phf_shared::get_index(&hashes, disps, len): a 0-based slot
get_index(hashes, disps, len) ==
    LET d == disps[(hashes.g % Len(disps)) + 1]
    IN  displace(hashes.f1, hashes.f2, d[1], d[2]) % len

\* Compress-hash-displace for one seed: buckets in descending size, each
\* given the first displacement pair that sends its keys to free, distinct
\* slots.  map[slot + 1] is the index in `entries` of the key stored in the
\* slot, 0 while the slot is free.

\* the slot displacement d gives the key with hashes h
slot_of(h, d, table_len) == displace(h.f1, h.f2, d[1], d[2]) % table_len

\* `for d1 in 0..table_len { for d2 in 0..table_len {`: the first pair, from
\* the n-th on, that fits the keys of one bucket
RECURSIVE first_displacement(_, _, _, _)
first_displacement(n, keys, hashes, map) ==
    LET table_len == Len(map)
        d == <<n \div table_len, n % table_len>>
    IN  IF n >= table_len * table_len THEN None
        ELSE IF /\ \A i \in keys : map[slot_of(hashes[i], d, table_len) + 1] = 0
                /\ \A i, j \in keys :
                     i # j => slot_of(hashes[i], d, table_len)
                                  # slot_of(hashes[j], d, table_len)
        THEN Some(d)
        ELSE first_displacement(n + 1, keys, hashes, map)

RECURSIVE place_buckets(_, _, _, _, _)
place_buckets(order, bucket, hashes, disps, map) ==
    IF order = <<>> THEN Some([disps |-> disps, map |-> map])
    ELSE LET b == Head(order)[2]
             table_len == Len(map)
             found == first_displacement(0, bucket[b], hashes, map)
         IN  IF found = None THEN None
             ELSE LET d == unwrap(found)
                      filled == [s \in 1..table_len |->
                                    IF \E i \in bucket[b] :
                                           slot_of(hashes[i], d, table_len) + 1 = s
                                    THEN CHOOSE i \in bucket[b] :
                                           slot_of(hashes[i], d, table_len) + 1 = s
                                    ELSE map[s]]
                  IN  place_buckets(Tail(order), bucket, hashes,
                                    [disps EXCEPT ![b + 1] = d], filled)

\* phf_generator::try_generate_hash(entries, key) -> Option<HashState>
try_generate_hash(entries, key) ==
    LET table_len == Len(entries)
        hashes == [i \in 1..table_len |-> hash(entries[i], key)]
        buckets_len == (table_len + DEFAULT_LAMBDA - 1) \div DEFAULT_LAMBDA
        bucket == [b \in 0..(buckets_len - 1) |->
                     {i \in 1..table_len : hashes[i].g % buckets_len = b}]
        order == sort_by_key([b \in 1..buckets_len |->
                                 <<0 - Cardinality(bucket[b - 1]), b - 1>>])
        placed == place_buckets(order, bucket, hashes,
                                [b \in 1..buckets_len |-> <<0, 0>>],
                                [s \in 1..table_len |-> 0])
    IN  IF placed = None THEN None
        ELSE Some([key |-> key, disps |-> unwrap(placed).disps,
                   map |-> unwrap(placed).map])

\* phf_generator::generate_hash(&keys): the first seed that succeeds
generate_hash(entries) ==
    LET good == {key \in 1..MaxHashKey : try_generate_hash(entries, key) # None}
    IN  unwrap(try_generate_hash(entries, Min(good)))

\* the keys of a map as a Vec, here in ascending order
RECURSIVE keys_of(_)
keys_of(K) ==
    IF K = {} THEN <<>> ELSE <<Min(K)>> \o keys_of(K \ {Min(K)})

\* The CharMap that main (lines 428-474) prints for `mapping` and HashState
\* `state`: range = min..=max of the keys, entries ordered by slot.
char_map(mapping, state) ==
    LET keys == keys_of(DOMAIN mapping)
    IN  [range   |-> <<Min(DOMAIN mapping), Max(DOMAIN mapping)>>,
         key     |-> state.key,
         disps   |-> state.disps,
         entries |-> [s \in 1..Len(state.map) |->
                         <<keys[state.map[s]], mapping[keys[state.map[s]]]>>]]

\* ------------------------------------------------------------------------
\* src/phf.rs

get_entry_no_compare(self, key) ==
    IF ~(self.range[1] <= key /\ key <= self.range[2]) THEN None
    ELSE LET hashes == hash(key, self.key)
             index == get_index(hashes, self.disps, Len(self.entries))
             entry == self.entries[index + 1]
         IN  Some(<<entry[1], entry[2]>>)

\* CharMap::get_entry
get_entry(self, key) ==
    IF ~(self.range[1] <= key /\ key <= self.range[2]) THEN None
    ELSE LET hashes == hash(key, self.key)
             index == get_index(hashes, self.disps, Len(self.entries))
             entry == self.entries[index + 1]
         IN  IF key = entry[1] THEN Some(<<entry[1], entry[2]>>) ELSE None

\* CharMap::get
get_value(self, key) ==
    {e[2] : e \in get_entry(self, key)}

\* ------------------------------------------------------------------------
\* src/tables.rs is the generator's output for UnicodeData.txt.  The rows
\* below are the rows of that file for the characters the model strips:
\* E9, C5, 17D, 212B, 344 (canonical), 1C4, AA (compatibility) and the
\* combining classes of 301, 308, 30A, 30C, 323.

UCD_canon_decomp ==
    (197 :> <<65, 778>>) @@ (233 :> <<101, 769>>) @@ (381 :> <<90, 780>>)
        @@ (836 :> <<776, 769>>) @@ (8491 :> <<197>>)

UCD_compat_decomp ==
    (170 :> <<97>>) @@ (452 :> <<68, 381>>)

UCD_combining_classes ==
    (769 :> 230) @@ (776 :> 230) @@ (778 :> 230) @@ (780 :> 230) @@ (803 :> 220)

\* the mapping main computes for these rows
UCD_mapping ==
    build_mapping(UCD_combining_classes, UCD_compat_decomp, UCD_canon_decomp)

\* crate::tables::DIACRITICS_MAPPING, as main builds and prints it; the
\* run-time model holds it in `table`
DIACRITICS_MAPPING ==
    char_map(UCD_mapping, generate_hash(keys_of(DOMAIN UCD_mapping)))

\* ------------------------------------------------------------------------
\* State

\* the static table and the lookups made on it
VARIABLES
    built,    \* HashMap<char, Box<str>>: the mapping the table is built from
    table,    \* the CharMap printed for it: crate::tables::DIACRITICS_MAPPING
    got       \* Option<(char, Option<(char, &V)>)>: the last get_entry

mapVars == <<built, table, got>>

\* one call of str::strip_diacritics, and single-char lookups
VARIABLES
    self,     \* the &str strip_diacritics is called on
    pc,       \* "call", "loop", "returned", "abort"
    buf,      \* Option<String>: None until String::with_capacity
    rest,     \* the loop's `rest`
    ret,      \* Option<Cow<str>>: the value returned
    pass,     \* 1 for strip(s), 2 for strip(strip(s))
    first,    \* the value strip(s) returned, kept for the second pass
    lookup    \* Option<(char, Option<&'static str>)>: the last char lookup

stripVars == <<self, pc, buf, rest, ret, pass, first, lookup>>

\* one call of sort_codepoints
VARIABLES
    sort_chars,     \* the argument `chars`
    sort_classes,   \* the argument `combining_classes`
    sort_out        \* Option<Vec<char>>: the value returned

sortVars == <<sort_chars, sort_classes, sort_out>>

\* the generator's main, and one call of _decompose followed call by call
VARIABLES
    ucd,            \* what load_unicode_data returned: combining_classes,
                    \* compat_decomp, canon_decomp
    gen_pc,         \* where main is
    full,           \* what compute_fully_decomposed returned
    gen_mapping,    \* main's `mapping`
    dec_pc,         \* where the call of _decompose is
    dec_arg,        \* its arguments ch and compatible
    stack,          \* the active calls of __decompose, innermost last
    dec_res         \* `res`

genVars == <<ucd, gen_pc, full, gen_mapping>>

decVars == <<dec_pc, dec_arg, stack, dec_res>>

vars == <<mapVars, stripVars, sortVars, genVars, decVars>>

\* ------------------------------------------------------------------------
\* src/lib.rs

\* <char as CharDiacriticExt>::strip_diacritics -> Option<&'static str>
char_strip_diacritics(c) ==
    IF is_diacritic(c) THEN Some(<<>>)
    ELSE get_value(table, c)

\* the first <<i, c>> of s.char_indices() with c.strip_diacritics() = Some(_)
RECURSIVE first_replaceable(_)
first_replaceable(cis) ==
    IF cis = <<>> THEN None
    ELSE IF char_strip_diacritics(Head(cis)[2]) # None THEN Some(Head(cis))
    ELSE first_replaceable(Tail(cis))

\* fn next_diacritic(s) -> Option<(&str, &'static str, &str)>
next_diacritic(s) ==
    LET hit == first_replaceable(char_indices(s))
    IN  IF hit = None THEN None
        ELSE LET i == unwrap(hit)[1]
                 c == unwrap(hit)[2]
             IN  Some(<<slice(s, 0, i), unwrap(char_strip_diacritics(c)),
                        slice(s, i + len_utf8(c), Len(s))>>)

\* Bounds of the run-time model: characters per input string, and the
\* bytes the allocator gives a String before push_str fails (the process
\* aborts).  A correct strip of MaxLen characters needs at most
\* 4 * (MaxLen - 1) + 2 bytes, which MaxHeap exceeds.
MaxLen == 3

MaxHeap == 16

\* 'a', U+00E9, U+00F0, U+01C4, U+0301, U+AC00, U+1F600: one to four bytes;
\* a key with a one-byte and one with a two-byte value, a diacritic, and
\* non-keys inside and outside the table's range
Alphabet == {97, 233, 240, 452, 769, 44032, 128512}

Strings ==
    {codepoints_to_utf8(cs) : cs \in UNION {[1..n -> Alphabet] : n \in 0..MaxLen}}

\* the characters looked up one at a time: the alphabet, the keys, and
\* every character from U+02F8 to U+0378, which holds the diacritic block
LookupChars ==
    Alphabet \cup {65, 170, 197, 381, 8491, 8492} \cup (760..888)

Borrowed(s) == [kind |-> "Borrowed", data |-> s]

Owned(s) == [kind |-> "Owned", data |-> s]

\* String::push_str: None when the allocation fails
push_str(b, s) ==
    IF Len(b) + Len(s) <= MaxHeap THEN Some(b \o s) ELSE None

strip_enter_eager(s) ==
    LET nd == next_diacritic(s)
    IN  IF nd = None
        THEN [pc |-> "returned", buf |-> Some(s), rest |-> <<>>,
              ret |-> Some(Owned(s))]
        ELSE [pc |-> "loop", buf |-> Some(unwrap(nd)[1] \o unwrap(nd)[2]),
              rest |-> unwrap(nd)[3], ret |-> None]

\* lines 41-49 of str::strip_diacritics: the first match
strip_enter(s) ==
    LET nd == next_diacritic(s)
    IN  IF nd = None
        THEN [pc |-> "returned", buf |-> None, rest |-> <<>>,
              ret |-> Some(Borrowed(s))]
        ELSE [pc |-> "loop", buf |-> Some(unwrap(nd)[1] \o unwrap(nd)[2]),
              rest |-> unwrap(nd)[3], ret |-> None]

\* lines 52-62: one iteration of `while !rest.is_empty()`: <<buf, rest>>,
\* buf None when push_str failed
strip_iter(b, r) ==
    LET nd == next_diacritic(r)
    IN  IF nd # None
        THEN LET b1 == push_str(b, unwrap(nd)[1])
             IN  IF b1 = None THEN <<None, r>>
                 ELSE <<push_str(unwrap(b1), unwrap(nd)[2]), unwrap(nd)[3]>>
        ELSE <<push_str(b, r), slice(r, 0, Len(r))>>

StripCall ==
    /\ pc = "call"
    /\ LET st == strip_enter(self)
       IN  /\ pc' = st.pc
           /\ buf' = st.buf
           /\ rest' = st.rest
           /\ ret' = st.ret
    /\ UNCHANGED <<self, pass, first, lookup>>
    /\ UNCHANGED <<mapVars, sortVars, genVars, decVars>>

StripLoop ==
    /\ pc = "loop"
    /\ rest # <<>>
    /\ LET st == strip_iter(unwrap(buf), rest)
       IN  IF st[1] = None
           THEN /\ pc' = "abort"
                /\ UNCHANGED <<buf, rest>>
           ELSE /\ pc' = "loop"
                /\ buf' = st[1]
                /\ rest' = st[2]
    /\ UNCHANGED <<self, ret, pass, first, lookup>>
    /\ UNCHANGED <<mapVars, sortVars, genVars, decVars>>

StripReturn ==
    /\ pc = "loop"
    /\ rest = <<>>
    /\ pc' = "returned"
    /\ ret' = Some(Owned(unwrap(buf)))
    /\ UNCHANGED <<self, buf, rest, pass, first, lookup>>
    /\ UNCHANGED <<mapVars, sortVars, genVars, decVars>>

\* strip(strip(s)): the caller strips the value the first call returned
StripAgain ==
    /\ pc = "returned"
    /\ pass = 1
    /\ pass' = 2
    /\ first' = Some(unwrap(ret).data)
    /\ self' = unwrap(ret).data
    /\ pc' = "call"
    /\ buf' = None
    /\ rest' = <<>>
    /\ ret' = None
    /\ UNCHANGED lookup
    /\ UNCHANGED <<mapVars, sortVars, genVars, decVars>>

\* c.strip_diacritics() for a single char
CharStrip ==
    /\ \E c \in LookupChars : lookup' = Some(<<c, char_strip_diacritics(c)>>)
    /\ UNCHANGED <<self, pc, buf, rest, ret, pass, first>>
    /\ UNCHANGED <<mapVars, sortVars, genVars, decVars>>

\* ------------------------------------------------------------------------
\* CharMap lookups on tables built from arbitrary key sets

\* keys per built table
MaxKeys == 6

\* U+00C1, U+00C5, U+00E9, U+00F0, U+01C4, U+01F4, U+212B
MapUniverse == {193, 197, 233, 240, 452, 500, 8491}

\* characters looked up: every possible key, and two that never are keys
MapLookups == MapUniverse \cup {65, 128512}

\* the value stored for key k: a one-letter str
value_of(k) == <<97 + (k % 26)>>

MapGetEntry ==
    /\ \E c \in MapLookups : got' = Some(<<c, get_entry(table, c)>>)
    /\ UNCHANGED <<built, table>>
    /\ UNCHANGED <<stripVars, sortVars, genVars, decVars>>

\* ------------------------------------------------------------------------
\* sort_codepoints on arbitrary sequences and combining classes

\* codepoints per sorted sequence
MaxSortLen == 4

\* 'A', U+0301, U+0323, U+0334
SortChars == {65, 769, 803, 820}

\* the classes a codepoint may be given: starter, below, above
SortClasses == {0, 220, 230}

SortCall ==
    /\ sort_out = None
    /\ sort_out' = Some(sort_codepoints(sort_chars, sort_classes))
    /\ UNCHANGED <<sort_chars, sort_classes>>
    /\ UNCHANGED <<mapVars, stripVars, genVars, decVars>>

\* ------------------------------------------------------------------------
\* The generator's main on arbitrary decomposition tables

\* rows with a decomposition per table pair
MaxRows == 2

\* Decomposition rows the tables are drawn from, each usable as a canonical
\* or as a compatibility decomposition: U+00C5, U+01FA, U+01C4, U+017D,
\* U+0344 (itself a diacritic), 'A' (ASCII) and U+AC01 (a Hangul syllable)
GenRows ==
    {<<197, <<65, 778>>>>, <<506, <<197, 769>>>>, <<452, <<68, 381>>>>,
     <<381, <<90, 780>>>>, <<836, <<776, 769>>>>, <<65, <<66, 769>>>>,
     <<44033, <<4352, 769>>>>}

\* the map holding the rows R
rows_map(R) ==
    [ch \in {r[1] : r \in R} |-> (CHOOSE r \in R : r[1] = ch)[2]]

\* the combining classes of the marks in the rows
GenClasses ==
    (769 :> 230) @@ (776 :> 230) @@ (778 :> 230) @@ (780 :> 230)

\* lines 269-340 of compute_fully_decomposed, called from main line 422
GenExpand ==
    /\ gen_pc = "loaded"
    /\ full' = Some(expand_all(ucd.canon_decomp, ucd.compat_decomp))
    /\ gen_pc' = "expanded"
    /\ UNCHANGED <<ucd, gen_mapping>>
    /\ UNCHANGED <<mapVars, stripVars, sortVars, decVars>>

\* lines 342-348: the pruning loop, and the return to main
GenPrune ==
    /\ gen_pc = "expanded"
    /\ \E f \in full : full' = Some(<<f[1], prune(f[1], f[2])>>)
    /\ gen_pc' = "decomposed"
    /\ UNCHANGED <<ucd, gen_mapping>>
    /\ UNCHANGED <<mapVars, stripVars, sortVars, decVars>>

\* main line 424
GenAddCanon ==
    /\ gen_pc = "decomposed"
    /\ \E f \in full : gen_mapping' = add_mapping(f[1], ucd.combining_classes, <<>>)
    /\ gen_pc' = "canon_added"
    /\ UNCHANGED <<ucd, full>>
    /\ UNCHANGED <<mapVars, stripVars, sortVars, decVars>>

\* main line 425
GenAddCompat ==
    /\ gen_pc = "canon_added"
    /\ \E f \in full :
         gen_mapping' = add_mapping(f[2], ucd.combining_classes, gen_mapping)
    /\ gen_pc' = "mapped"
    /\ UNCHANGED <<ucd, full>>
    /\ UNCHANGED <<mapVars, stripVars, sortVars, decVars>>

\* main lines 428-474: `expect("Empty data")` panics on an empty mapping;
\* otherwise the table is printed for a seed generate_hash finds
GenBuild ==
    /\ gen_pc = "mapped"
    /\ IF DOMAIN gen_mapping = {}
       THEN /\ gen_pc' = "panic"
            /\ UNCHANGED <<built, table>>
       ELSE /\ \E key \in 1..MaxHashKey :
                 \E state \in try_generate_hash(keys_of(DOMAIN gen_mapping), key) :
                     table' = char_map(gen_mapping, state)
            /\ built' = gen_mapping
            /\ gen_pc' = "done"
    /\ UNCHANGED <<ucd, full, gen_mapping, got>>
    /\ UNCHANGED <<stripVars, sortVars, decVars>>

\* ------------------------------------------------------------------------
\* One call of _decompose, followed call by call, on tables that may hold
\* cycles

\* calls of __decompose the thread's stack holds; more than any descent
\* through distinct codepoints of DecRows needs
MaxDepth == 5

\* rows the tables are drawn from, at most one per codepoint: U+00C5,
\* U+01FA and U+212B, decomposing to ASCII and marks, to each other or to
\* themselves
DecRows ==
    {<<197, <<65, 778>>>>, <<197, <<197>>>>, <<197, <<506>>>>,
     <<506, <<197, 769>>>>, <<506, <<8491>>>>,
     <<8491, <<197>>>>, <<8491, <<506, 65>>>>}

\* the codepoints _decompose is called on
DecChars == {65, 197, 506, 8491}

\* What calling __decompose(ch, ..., compatible, res) does first: it pushes
\* ch and returns (outcome "push"), or enters one of its for loops
\* (outcome "loop", with the decomposition to walk)
decompose_entry(ch, canon_decomp, compat_decomp, compatible) ==
    IF ch <= ASCII_MAX THEN [outcome |-> "push", decomp |-> <<>>]
    ELSE IF get(canon_decomp, ch) # None
    THEN [outcome |-> "loop", decomp |-> canon_decomp[ch]]
    ELSE IF compatible /\ get(compat_decomp, ch) # None
    THEN [outcome |-> "loop", decomp |-> compat_decomp[ch]]
    ELSE [outcome |-> "push", decomp |-> <<>>]

\* a call of __decompose(ch) made with the calls `st` active
DecInvoke(ch, st) ==
    LET e == decompose_entry(ch, ucd.canon_decomp, ucd.compat_decomp,
                             dec_arg.compatible)
    IN  IF e.outcome = "push"
        THEN /\ dec_res' = Append(dec_res, ch)
             /\ stack' = st
             /\ dec_pc' = "running"
        ELSE IF Len(st) >= MaxDepth
        THEN /\ dec_pc' = "overflow"
             /\ stack' = st
             /\ UNCHANGED dec_res
        ELSE /\ stack' = Append(st, [ch |-> ch, todo |-> e.decomp])
             /\ dec_pc' = "running"
             /\ UNCHANGED dec_res

\* _decompose line 320-321: res = Vec::new(), then __decompose(ch, ...)
DecCall ==
    /\ dec_pc = "call"
    /\ DecInvoke(dec_arg.ch, <<>>)
    /\ UNCHANGED <<ucd, gen_pc, full, gen_mapping, dec_arg>>
    /\ UNCHANGED <<mapVars, stripVars, sortVars>>

\* the innermost call's for loop makes its next call of __decompose
DecNext ==
    /\ dec_pc = "running"
    /\ stack # <<>>
    /\ stack[Len(stack)].todo # <<>>
    /\ LET top == stack[Len(stack)]
       IN  DecInvoke(Head(top.todo),
                     [stack EXCEPT ![Len(stack)].todo = Tail(top.todo)])
    /\ UNCHANGED <<ucd, gen_pc, full, gen_mapping, dec_arg>>
    /\ UNCHANGED <<mapVars, stripVars, sortVars>>

\* the innermost call's for loop is over: it returns
DecReturn ==
    /\ dec_pc = "running"
    /\ stack # <<>>
    /\ stack[Len(stack)].todo = <<>>
    /\ stack' = SubSeq(stack, 1, Len(stack) - 1)
    /\ UNCHANGED <<dec_pc, dec_res>>
    /\ UNCHANGED <<ucd, gen_pc, full, gen_mapping, dec_arg>>
    /\ UNCHANGED <<mapVars, stripVars, sortVars>>

\* _decompose lines 322-326: the outermost call has returned
DecDone ==
    /\ dec_pc = "running"
    /\ stack = <<>>
    /\ dec_pc' = "returned"
    /\ UNCHANGED <<stack, dec_res>>
    /\ UNCHANGED <<ucd, gen_pc, full, gen_mapping, dec_arg>>
    /\ UNCHANGED <<mapVars, stripVars, sortVars>>

\* what _decompose returns once the outermost call has returned
dec_result ==
    IF Len(dec_res) = 1 /\ dec_res[1] = dec_arg.ch THEN None ELSE Some(dec_res)

\* ------------------------------------------------------------------------
\* Initial states

\* the program starts with the generated table compiled in
InitTable ==
    /\ built = UCD_mapping
    /\ table = DIACRITICS_MAPPING
    /\ got = None

\* a table built from any key set, by any seed that succeeds
InitMap ==
    /\ \E K \in SUBSET MapUniverse :
         /\ K # {}
         /\ Cardinality(K) <= MaxKeys
         /\ built = [k \in K |-> value_of(k)]
    /\ \E key \in 1..MaxHashKey :
         \E state \in try_generate_hash(keys_of(DOMAIN built), key) :
             table = char_map(built, state)
    /\ got = None

InitStrip ==
    /\ self \in Strings
    /\ pc = "call"
    /\ buf = None
    /\ rest = <<>>
    /\ ret = None
    /\ pass = 1
    /\ first = None
    /\ lookup = None

IdleStrip ==
    /\ self = <<>>
    /\ pc = "idle"
    /\ buf = None
    /\ rest = <<>>
    /\ ret = None
    /\ pass = 0
    /\ first = None
    /\ lookup = None

IdleSort ==
    /\ sort_chars = <<>>
    /\ sort_classes = <<>>
    /\ sort_out = None

IdleGen ==
    /\ ucd = [combining_classes |-> <<>>, compat_decomp |-> <<>>,
              canon_decomp |-> <<>>]
    /\ gen_pc = "idle"
    /\ full = None
    /\ gen_mapping = <<>>

IdleDec ==
    /\ dec_pc = "idle"
    /\ dec_arg = [ch |-> 0, compatible |-> FALSE]
    /\ stack = <<>>
    /\ dec_res = <<>>

InitSort ==
    /\ \E a \in [SortChars -> SortClasses] :
         sort_classes = [c \in {x \in SortChars : a[x] # 0} |-> a[c]]
    /\ sort_chars \in UNION {[1..n -> SortChars] : n \in 0..MaxSortLen}
    /\ sort_out = None

\* load_unicode_data has returned: at most MaxRows rows, a codepoint in at
\* most one of the two tables
InitGen ==
    /\ \E R \in SUBSET GenRows :
         /\ Cardinality(R) <= MaxRows
         /\ \E C \in SUBSET R :
              ucd = [combining_classes |-> GenClasses,
                     canon_decomp |-> rows_map(C),
                     compat_decomp |-> rows_map(R \ C)]
    /\ gen_pc = "loaded"
    /\ full = None
    /\ gen_mapping = <<>>

IdleMap ==
    /\ built = <<>>
    /\ table = <<>>
    /\ got = None

\* any tables over DecRows, cyclic ones included, and any call
InitDec ==
    /\ \E R \in SUBSET DecRows :
         /\ \A r1, r2 \in R : r1[1] = r2[1] => r1 = r2
         /\ \E C \in SUBSET R :
              ucd = [combining_classes |-> <<>>,
                     canon_decomp |-> rows_map(C),
                     compat_decomp |-> rows_map(R \ C)]
    /\ gen_pc = "idle"
    /\ full = None
    /\ gen_mapping = <<>>
    /\ dec_pc = "call"
    /\ dec_arg \in [ch : DecChars, compatible : BOOLEAN]
    /\ stack = <<>>
    /\ dec_res = <<>>

\* ------------------------------------------------------------------------
\* Specifications

\* str::strip_diacritics on every string of the alphabet, then on its result
Init == InitTable /\ InitStrip /\ IdleSort /\ IdleGen /\ IdleDec

Next == StripCall \/ StripLoop \/ StripReturn \/ StripAgain

Spec == Init /\ [][Next]_vars

\* char::strip_diacritics on single characters
InitChar == InitTable /\ IdleStrip /\ IdleSort /\ IdleGen /\ IdleDec

NextChar == CharStrip

SpecChar == InitChar /\ [][NextChar]_vars

\* CharMap::get_entry on built tables
InitMapOnly == InitMap /\ IdleStrip /\ IdleSort /\ IdleGen /\ IdleDec

NextMap == MapGetEntry

SpecMap == InitMapOnly /\ [][NextMap]_vars

\* sort_codepoints
InitSortOnly == IdleMap /\ IdleStrip /\ InitSort /\ IdleGen /\ IdleDec

NextSort == SortCall

SpecSort == InitSortOnly /\ [][NextSort]_vars

\* the generator's main
InitGenOnly == IdleMap /\ IdleStrip /\ IdleSort /\ InitGen /\ IdleDec

NextGen == GenExpand \/ GenPrune \/ GenAddCanon \/ GenAddCompat \/ GenBuild

SpecGen == InitGenOnly /\ [][NextGen]_vars

\* one call of _decompose
InitDecOnly == IdleMap /\ IdleStrip /\ IdleSort /\ InitDec

NextDec == DecCall \/ DecNext \/ DecReturn \/ DecDone

SpecDecompose == InitDecOnly /\ [][NextDec]_vars

\* ------------------------------------------------------------------------
\* What the claims compare the code with

\* the keys and values of the table, read off its entries
TableKeys == {e[1] : e \in Range(table.entries)}

TableValue(k) == (CHOOSE e \in Range(table.entries) : e[1] = k)[2]

\* r(c): the replacement of one character
replacement(c) ==
    IF DIACRITIC_FIRST <= c /\ c <= DIACRITIC_LAST THEN <<>>
    ELSE IF c \in TableKeys THEN TableValue(c)
    ELSE encode_utf8(c)

\* the characters of the str s
chars_of(s) ==
    LET cis == char_indices(s) IN [i \in 1..Len(cis) |-> cis[i][2]]

\* the concatenation of r(c) over the characters of s
Expected(s) ==
    Concat([i \in 1..Len(chars_of(s)) |-> replacement(chars_of(s)[i])])

NoReplaceable(s) ==
    \A i \in 1..Len(chars_of(s)) :
        /\ ~(DIACRITIC_FIRST <= chars_of(s)[i] /\ chars_of(s)[i] <= DIACRITIC_LAST)
        /\ chars_of(s)[i] \notin TableKeys

IsPrefix(p, s) == Len(p) <= Len(s) /\ SubSeq(s, 1, Len(p)) = p

\* ------------------------------------------------------------------------
\* Claims

\* C1: str::strip_diacritics(s) returns the concatenation of r(c) over the
\* characters c of s: the buffer it builds never holds anything but a prefix
\* of that concatenation (a trailing untouched segment is appended once),
\* and the value returned is the concatenation.
C1_StripIsConcatenation ==
    /\ \A b \in buf : IsPrefix(b, Expected(self))
    /\ pc = "returned" => \A r \in ret : r.data = Expected(self)

\* C2: str::strip_diacritics is total: no call ends in a failure, the scan
\* loop reaching an empty remainder for every input.
C2_StripTotal ==
    pc # "abort"

\* C3: a string without replaceable characters is returned borrowed, no
\* buffer having been built; an owned string is returned only for a string
\* with a replaceable character.
C3_IdentityFastPath ==
    pc = "returned" =>
        \A r \in ret :
            /\ NoReplaceable(self) => r = Borrowed(self) /\ buf = None
            /\ r.kind = "Owned" => ~NoReplaceable(self)

\* C3 witness: "a", U+00F0 (inside the table's range), U+AC00 is returned
\* borrowed by the first call
C3_Witness ==
    /\ pc = "returned"
    /\ pass = 1
    /\ self = codepoints_to_utf8(<<97, 240, 44032>>)
    /\ ret = Some(Borrowed(self))

\* C4: strip(strip(s)) = strip(s) for every s: both calls return, and the
\* second returns what the first returned.
C4_Idempotent ==
    /\ pc # "abort"
    /\ (pass = 2 /\ pc = "returned") => \A r \in ret : Some(r.data) = first

\* C5: char::strip_diacritics(c) is Some("") for c in U+0300..U+036F, the
\* table's value for a key of the table, None for every other character.
C5_CharLookup ==
    \A l \in lookup :
        l[2] = IF DIACRITIC_FIRST <= l[1] /\ l[1] <= DIACRITIC_LAST THEN Some(<<>>)
               ELSE IF l[1] \in TableKeys THEN Some(TableValue(l[1]))
               ELSE None

\* C5 witness: U+036F, the last character of the block, gives Some("")
C5_Witness ==
    lookup = Some(<<DIACRITIC_LAST, Some(<<>>)>>)

\* C6: get_entry(k) is the built pair for every key k of the mapping the
\* table was built from, and None for every other character.
C6_RoundTrip ==
    \A g \in got :
        g[2] = IF g[1] \in DOMAIN built THEN Some(<<g[1], built[g[1]]>>)
               ELSE None

\* C6 witness: a character inside the range that is no key was looked up
\* in a table of two buckets and found absent
C6_Witness ==
    \E g \in got :
        /\ g[1] \notin DOMAIN built
        /\ table.range[1] < g[1]
        /\ g[1] < table.range[2]
        /\ Len(table.disps) = 2
        /\ g[2] = None

\* ------------------------------------------------------------------------
\* What the generator claims compare the code with

\* <<class, codepoint>> for each codepoint of chars
pairs_of(chars, combining_classes) ==
    [i \in 1..Len(chars) |-> <<class_of(chars[i], combining_classes), chars[i]>>]

\* a run of non-starters in ascending class, equal classes in their order
RECURSIVE stable_by_class(_)
stable_by_class(ps) ==
    IF ps = <<>> THEN <<>>
    ELSE LET m == Min({ps[i][1] : i \in 1..Len(ps)})
             Least(p) == p[1] = m
             Other(p) == p[1] # m
         IN  SelectSeq(ps, Least) \o stable_by_class(SelectSeq(ps, Other))

\* the length of the maximal run of non-starters ps begins with
RECURSIVE run_length(_)
run_length(ps) ==
    IF ps = <<>> \/ Head(ps)[1] = 0 THEN 0 ELSE 1 + run_length(Tail(ps))

\* Unicode canonical ordering: starters stay, each maximal run of
\* non-starters is sorted stably by class
RECURSIVE canonical_pairs(_)
canonical_pairs(ps) ==
    IF ps = <<>> THEN <<>>
    ELSE IF Head(ps)[1] = 0 THEN <<Head(ps)>> \o canonical_pairs(Tail(ps))
    ELSE stable_by_class(SubSeq(ps, 1, run_length(ps)))
             \o canonical_pairs(SubSeq(ps, run_length(ps) + 1, Len(ps)))

CanonicalOrder(chars, combining_classes) ==
    LET ps == canonical_pairs(pairs_of(chars, combining_classes))
    IN  [i \in 1..Len(ps) |-> ps[i][2]]

\* the full recursive expansion of c (section 4.1, steps 1-4)
RECURSIVE FullDecomposition(_, _, _, _)
FullDecomposition(c, compatible, canon_decomp, compat_decomp) ==
    IF c <= 127 THEN <<c>>
    ELSE IF c \in DOMAIN canon_decomp
    THEN Concat([i \in 1..Len(canon_decomp[c]) |->
                    FullDecomposition(canon_decomp[c][i], compatible,
                                      canon_decomp, compat_decomp)])
    ELSE IF compatible /\ c \in DOMAIN compat_decomp
    THEN Concat([i \in 1..Len(compat_decomp[c]) |->
                    FullDecomposition(compat_decomp[c][i], compatible,
                                      canon_decomp, compat_decomp)])
    ELSE <<c>>

\* the codepoints from 0 to the largest having any decomposition, outside
\* the Hangul syllables
Decomposable ==
    LET D == (DOMAIN ucd.canon_decomp) \cup (DOMAIN ucd.compat_decomp)
    IN  IF D = {} THEN {}
        ELSE {c \in 0..Max(D) : ~(S_BASE <= c /\ c < S_BASE + S_COUNT)}

InBlock(c) == DIACRITIC_FIRST <= c /\ c <= DIACRITIC_LAST

HasDiacritic(e) == \E i \in 1..Len(e) : InBlock(e[i])

WithoutDiacritics(e) ==
    LET Keep(c) == ~InBlock(c) IN SelectSeq(e, Keep)

\* the expansions of c, in either mode, that hold a diacritic
DiacriticExpansions(c) ==
    {e \in {FullDecomposition(c, m, ucd.canon_decomp, ucd.compat_decomp) :
                m \in BOOLEAN} : HasDiacritic(e)}

\* ------------------------------------------------------------------------
\* Claims about the generator

\* C7: sort_codepoints returns the Unicode canonical ordering of its input:
\* starters keep their positions and each maximal run of non-starters is
\* stably sorted by ascending combining class.
C7_SortIsCanonicalOrder ==
    \A o \in sort_out : o = CanonicalOrder(sort_chars, sort_classes)

\* C8: for every codepoint c from 0 to the largest with a decomposition,
\* outside the Hangul syllables, the loop of compute_fully_decomposed records
\* c in a mode's map, with its full expansion, iff the expansion is not [c].
C8_NonIdentityRecorded ==
    gen_pc = "expanded" =>
        \A f \in full : \A c \in Decomposable : \A m \in 1..2 :
            LET e == FullDecomposition(c, m = 2, ucd.canon_decomp,
                                       ucd.compat_decomp)
            IN  /\ c \in DOMAIN f[m] <=> e # <<c>>
                /\ c \in DOMAIN f[m] => f[m][c] = e

\* C9: once both add_mapping calls are done, c is a key of the mapping iff
\* an expansion of c holds a codepoint of U+0300..U+036F and c is not in
\* that block, and its value is the UTF-8 of such an expansion, reordered
\* and with the block's codepoints removed.  (Stated for the codepoints
\* the loop visits: Hangul syllables are left out.)
C9_KeyIffDiacritic ==
    gen_pc = "mapped" =>
        \A c \in Decomposable :
            /\ c \in DOMAIN gen_mapping <=>
                   (DiacriticExpansions(c) # {} /\ ~InBlock(c))
            /\ c \in DOMAIN gen_mapping =>
                   gen_mapping[c] \in
                       {codepoints_to_utf8(WithoutDiacritics(
                            CanonicalOrder(e, ucd.combining_classes))) :
                            e \in DiacriticExpansions(c)}

\* C10: every call of _decompose ends, on cyclic tables too: the recursion
\* never runs out of stack.
C10_DecomposeTerminates ==
    dec_pc # "overflow"

\* the table entry an expansion e of c yields, if it yields one
EntryOf(c, e) ==
    IF InBlock(c) \/ e = <<c>> \/ ~HasDiacritic(e) THEN None
    ELSE Some(codepoints_to_utf8(WithoutDiacritics(
                  CanonicalOrder(e, ucd.combining_classes))))

\* C11: once both add_mapping calls are done, a codepoint whose
\* canonical-only expansion and whose differing canonical+compatibility
\* expansion both yield an entry has the value derived from the
\* compatibility expansion; a compatibility expansion equal to the
\* canonical one is absent from the pruned compatibility map.
C11_MergeRule ==
    gen_pc = "mapped" =>
        \A c \in Decomposable :
            LET canon == FullDecomposition(c, FALSE, ucd.canon_decomp,
                                           ucd.compat_decomp)
                compat == FullDecomposition(c, TRUE, ucd.canon_decomp,
                                            ucd.compat_decomp)
            IN  /\ (canon # compat /\ EntryOf(c, canon) # None
                                   /\ EntryOf(c, compat) # None) =>
                       /\ c \in DOMAIN gen_mapping
                       /\ Some(gen_mapping[c]) = EntryOf(c, compat)
                /\ canon = compat =>
                       \A f \in full : c \notin DOMAIN f[2]

\* U+01FA is "Å" by its canonical expansion [U+00C5, U+0301] and "A" by its
\* compatibility expansion [A, U+030A, U+0301]: the table holds "A"
C11_Witness ==
    /\ gen_pc = "mapped"
    /\ ucd.canon_decomp = (506 :> <<197, 769>>)
    /\ ucd.compat_decomp = (197 :> <<65, 778>>)
    /\ 506 \in DOMAIN gen_mapping
    /\ gen_mapping[506] = encode_utf8(65)
    /\ gen_mapping[506] # encode_utf8(197)

=============================================================================
